---- MODULE Spec2Model ----
(***************************************************************************)
(* react-console: a React reconciler host config that flattens a committed *)
(* tree of inline elements into one console call: a format string with     *)
(* %c markers plus one CSS string per marker.                              *)
(*                                                                         *)
(* src/index.js holds two revisions of the module.  Revision 1 is lines    *)
(* 1-293 (anchors append their href, images, no tag validation, no         *)
(* try/catch in render).  Revision 2 is lines 295-628 (permitted inline    *)
(* tag list, try/catch in render, br appended directly).  The variable     *)
(* `variant` selects the revision; every definition that differs between   *)
(* the two has one definition per revision (suffix _r1 / _r2) and a        *)
(* dispatching definition under the source's name.                         *)
(*                                                                         *)
(* JavaScript strings that end up in the output are sequences of one-      *)
(* character strings, so that concatenation, %c markers and the camel-case *)
(* conversion are computed character by character.                         *)
(***************************************************************************)
EXTENDS Integers, Sequences, FiniteSets

VARIABLES
    variant,    \* 1 or 2: the revision of src/index.js that is running
    container,  \* session -> the container info {context, method, committed}
    root,       \* session -> the forest of host elements the root renders to
    pc,         \* session -> where the session stands in the engine's work
    commits,    \* session -> number of commits the engine has started
    out,        \* the calls made on the logging contexts, in program order
    thrown,     \* session -> the error the session ended with and where it went
    entry,      \* session -> how the session was entered: wrapper or render
    tree,       \* session -> the instances the engine built from the root
    fl,         \* the flattening harness: elements, instances, result
    st          \* the serializer harness: style mapping and its CSS string

sessionVars == <<container, root, pc, commits, out, thrown, entry, tree>>

vars == <<variant, sessionVars, fl, st>>

(***************************************************************************)
(* Bounds of the model.                                                    *)
(***************************************************************************)
MaxNodes == 3
MaxProps == 2
MaxCommits == 2
MaxCallbacks == 4

(***************************************************************************)
(* Characters.                                                             *)
(***************************************************************************)
LowerCase == <<"a","b","c","d","e","f","g","h","i","j","k","l","m",
               "n","o","p","q","r","s","t","u","v","w","x","y","z">>
UpperCase == <<"A","B","C","D","E","F","G","H","I","J","K","L","M",
               "N","O","P","Q","R","S","T","U","V","W","X","Y","Z">>
Digits == <<"0","1","2","3","4","5","6","7","8","9">>

IsUpper(c) == \E i \in 1..26 : UpperCase[i] = c
IsLower(c) == \E i \in 1..26 : LowerCase[i] = c

\* String.prototype.toLowerCase, one character
LowerChar(c) ==
    IF IsUpper(c) THEN LowerCase[CHOOSE i \in 1..26 : UpperCase[i] = c] ELSE c

\* String.prototype.toLowerCase
toLowerCase(s) == [i \in 1..Len(s) |-> LowerChar(s[i])]

(***************************************************************************)
(* JavaScript values that reach string concatenation.                      *)
(***************************************************************************)
Str(s) == [t |-> "string", s |-> s, n |-> 0]
Num(n) == [t |-> "number", s |-> <<>>, n |-> n]
Undefined == [t |-> "undefined", s |-> <<>>, n |-> 0]
Sym == [t |-> "symbol", s |-> <<>>, n |-> 0]

NoError == [name |-> "none", message |-> <<>>]
TypeError(msg) == [name |-> "TypeError", message |-> <<msg>>]

RECURSIVE NumToStr(_)
\* Number::toString for the non-negative integers
NumToStr(n) ==
    IF n < 10 THEN <<Digits[n + 1]>>
    ELSE NumToStr(n \div 10) \o <<Digits[(n % 10) + 1]>>

\* the `+` of a string and a value converts the value with ToString, which
\* throws a TypeError on a Symbol
CanToString(v) == v.t # "symbol"
ToString(v) ==
    CASE v.t = "string" -> v.s
      [] v.t = "number" -> NumToStr(v.n)
      [] v.t = "undefined" -> <<"u","n","d","e","f","i","n","e","d">>
      [] OTHER -> <<>>

\* the truthiness of a value (`child.props.href` in a condition)
Truthy(v) ==
    CASE v.t = "string" -> v.s # <<>>
      [] v.t = "number" -> v.n # 0
      [] v.t = "undefined" -> FALSE
      [] OTHER -> TRUE

(***************************************************************************)
(* String literals of the source, as character sequences.                  *)
(***************************************************************************)
K_color == <<"c","o","l","o","r">>
K_fontWeight == <<"f","o","n","t","W","e","i","g","h","t">>
K_backgroundColor == <<"b","a","c","k","g","r","o","u","n","d","C","o","l","o","r">>
K_borderTopLeftRadius ==
    <<"b","o","r","d","e","r","T","o","p","L","e","f","t","R","a","d","i","u","s">>
K_WebkitFilter == <<"W","e","b","k","i","t","F","i","l","t","e","r">>
K_textDecoration == <<"t","e","x","t","D","e","c","o","r","a","t","i","o","n">>
K_fontStyle == <<"f","o","n","t","S","t","y","l","e">>
K_fontSize == <<"f","o","n","t","S","i","z","e">>
K_paddingLeft == <<"p","a","d","d","i","n","g","L","e","f","t">>
K_paddingTop == <<"p","a","d","d","i","n","g","T","o","p">>
K_backgroundImage == <<"b","a","c","k","g","r","o","u","n","d","I","m","a","g","e">>
K_verticalAlign == <<"v","e","r","t","i","c","a","l","A","l","i","g","n">>
S_underlineDotted == <<"u","n","d","e","r","l","i","n","e"," ","d","o","t","t","e","d">>
S_italic == <<"i","t","a","l","i","c">>
S_italics == <<"i","t","a","l","i","c","s">>
S_lighter == <<"l","i","g","h","t","e","r">>
S_bolder == <<"b","o","l","d","e","r">>
S_lineThrough == <<"l","i","n","e","-","t","h","r","o","u","g","h">>
S_underline == <<"u","n","d","e","r","l","i","n","e">>
S_yellow == <<"y","e","l","l","o","w">>
S_black == <<"b","l","a","c","k">>
S_smaller == <<"s","m","a","l","l","e","r">>
S_sub == <<"s","u","b">>
S_super == <<"s","u","p","e","r">>
S_blue == <<"b","l","u","e">>
S_teal == <<"#","2","1","a","0","a","0">>
S_Chris == <<"C","h","r","i","s">>
S_Google == <<"G","o","o","g","l","e">>
S_google == <<"h","t","t","p","s",":","/","/","g","o","o","g","l","e",".","c","o","m">>
S_px == <<"p","x">>
S_urlOpen == <<"u","r","l","(">>
S_urlClose == <<")">>
S_marker == <<"%","c">>
S_newline == <<"\n">>
S_space == <<" ">>

(***************************************************************************)
(* Style mappings: objects with string keys, kept in insertion order.      *)
(***************************************************************************)
Prop(k, v) == [k |-> k, v |-> v]
HasKey(style, k) == \E i \in 1..Len(style) : style[i].k = k
ValueOf(style, k) == style[CHOOSE i \in 1..Len(style) : style[i].k = k].v

\* target[k] = v: an existing key keeps its place, a new key goes last
SetKey(style, k, v) ==
    IF HasKey(style, k)
    THEN [i \in 1..Len(style) |-> IF style[i].k = k THEN Prop(k, v) ELSE style[i]]
    ELSE Append(style, Prop(k, v))

RECURSIVE ObjectAssign(_, _)
\* Object.assign(target, source): the source's own properties in order, each
\* overwriting the target's
ObjectAssign(target, source) ==
    IF source = <<>> THEN target
    ELSE ObjectAssign(SetKey(target, Head(source).k, Head(source).v), Tail(source))

(***************************************************************************)
(* The style serializer.                                                   *)
(***************************************************************************)
RECURSIVE ReplaceAllUpper(_)
\* prop.replace(/([A-Z])/g, "-$1")
ReplaceAllUpper(s) ==
    IF s = <<>> THEN <<>>
    ELSE (IF IsUpper(Head(s)) THEN <<"-", Head(s)>> ELSE <<Head(s)>>)
         \o ReplaceAllUpper(Tail(s))

\* prop.replace(/([a-z])([A-Z])/, "$1-$2"): the first match only
ReplaceFirstLowerUpper(s) ==
    LET hits == {i \in 1..(Len(s) - 1) : IsLower(s[i]) /\ IsUpper(s[i + 1])}
    IN IF hits = {} THEN s
       ELSE LET i == CHOOSE j \in hits : \A h \in hits : j <= h
            IN SubSeq(s, 1, i) \o <<"-">> \o SubSeq(s, i + 1, Len(s))

cssProp_r1(prop) == toLowerCase(ReplaceAllUpper(prop))
cssProp_r2(prop) == toLowerCase(ReplaceFirstLowerUpper(prop))
cssProp(prop) == IF variant = 1 THEN cssProp_r1(prop) ELSE cssProp_r2(prop)

\* does toCSSString(style) throw
toCSSStringThrows(style) == \E i \in 1..Len(style) : ~CanToString(style[i].v)

RECURSIVE toCSSString(_)
\* cssString += cssProp + ":" + style[prop] + ";" for each own property
toCSSString(style) ==
    IF style = <<>> THEN <<>>
    ELSE cssProp(Head(style).k) \o <<":">> \o ToString(Head(style).v) \o <<";">>
         \o toCSSString(Tail(style))

(***************************************************************************)
(* Host elements and instances.  A text leaf has type "#text"; an instance *)
(* is what createInstance returns, a text instance is the string itself.   *)
(***************************************************************************)
NoProps == [style |-> <<>>, href |-> Undefined, width |-> Undefined,
            height |-> Undefined, src |-> Undefined]

Element(type, props, children) ==
    [type |-> type, text |-> <<>>, props |-> props, children |-> children]
Text(s) == [type |-> "#text", text |-> s, props |-> NoProps, children |-> <<>>]

IsText(node) == node.type = "#text"

\* createTextInstance(text) { return text; }
createTextInstance(text) ==
    [type |-> "#text", text |-> text, props |-> NoProps, style |-> <<>>,
     children |-> <<>>]

(***************************************************************************)
(* The style resolver.                                                     *)
(***************************************************************************)
\* typeof props.width === "string" ? props.width : props.width + "px"
PxOf(v) == IF v.t = "string" THEN Str(v.s) ELSE Str(ToString(v) \o S_px)

styleForType_r1(type, props) ==
    CASE type = "a" -> <<Prop(K_color, Str(S_blue))>>
      [] type = "abbr" -> <<Prop(K_textDecoration, Str(S_underlineDotted)),
                            Prop(K_fontStyle, Str(S_italic)),
                            Prop(K_fontWeight, Str(S_lighter))>>
      [] type \in {"b", "strong"} -> <<Prop(K_fontWeight, Str(S_bolder))>>
      [] type \in {"del", "s"} -> <<Prop(K_textDecoration, Str(S_lineThrough))>>
      [] type \in {"em", "i"} -> <<Prop(K_fontStyle, Str(S_italic))>>
      [] type = "img" ->
             <<Prop(K_fontSize, Num(0)),
               Prop(K_paddingLeft, PxOf(props.width)),
               Prop(K_paddingTop, PxOf(props.height)),
               Prop(K_backgroundImage,
                    Str(S_urlOpen \o ToString(props.src) \o S_urlClose))>>
      [] type \in {"ins", "u"} -> <<Prop(K_textDecoration, Str(S_underline))>>
      [] type = "mark" -> <<Prop(K_backgroundColor, Str(S_yellow)),
                            Prop(K_color, Str(S_black))>>
      [] type = "small" -> <<Prop(K_fontSize, Str(S_smaller))>>
      [] type = "sub" -> <<Prop(K_fontSize, Str(S_smaller)),
                           Prop(K_verticalAlign, Str(S_sub))>>
      [] type = "sup" -> <<Prop(K_fontSize, Str(S_smaller)),
                           Prop(K_verticalAlign, Str(S_super))>>
      [] OTHER -> <<>>

styleForType_r2(type) ==
    CASE type = "abbr" -> <<Prop(K_textDecoration, Str(S_underlineDotted)),
                            Prop(K_fontStyle, Str(S_italics)),
                            Prop(K_fontWeight, Str(S_lighter))>>
      [] type \in {"b", "strong"} -> <<Prop(K_fontWeight, Str(S_bolder))>>
      [] type \in {"del", "s"} -> <<Prop(K_textDecoration, Str(S_lineThrough))>>
      [] type \in {"em", "i"} -> <<Prop(K_fontStyle, Str(S_italics))>>
      [] type \in {"ins", "u"} -> <<Prop(K_textDecoration, Str(S_underline))>>
      [] type = "mark" -> <<Prop(K_backgroundColor, Str(S_yellow)),
                            Prop(K_color, Str(S_black))>>
      [] type = "small" -> <<Prop(K_fontSize, Str(S_smaller))>>
      [] type = "sub" -> <<Prop(K_fontSize, Str(S_smaller)),
                           Prop(K_verticalAlign, Str(S_sub))>>
      [] type = "sup" -> <<Prop(K_fontSize, Str(S_smaller)),
                           Prop(K_verticalAlign, Str(S_super))>>
      [] OTHER -> <<>>

styleForType(type, props) ==
    IF variant = 1 THEN styleForType_r1(type, props) ELSE styleForType_r2(type)

(***************************************************************************)
(* The tag policy and instance construction.                               *)
(***************************************************************************)
inlineElements ==
    {"a", "abbr", "b", "bdi", "bdo", "br", "cite", "code", "data", "dfn", "em",
     "i", "kbd", "mark", "q", "rb", "rp", "rt", "rtc", "ruby", "s", "samp",
     "small", "span", "strong", "sub", "sup", "time", "u", "var", "wbr"}

\* new Error("Invalid element: " + type + " is not an inline element.")
InvalidElement(type) ==
    [name |-> "Error",
     message |-> <<"Invalid element: ", type, " is not an inline element.">>]

Instance(type, props, style, children) ==
    [type |-> type, text |-> <<>>, props |-> props, style |-> style,
     children |-> children]

Returned(v) == [err |-> NoError, value |-> v]
Threw(e) == [err |-> e, value |-> <<>>]

\* revision 1: every tag is accepted and the props are kept on the instance
createInstance_r1(type, props) ==
    Returned(Instance(type, props,
                      ObjectAssign(styleForType_r1(type, props), props.style),
                      <<>>))

\* revision 2: a tag outside inlineElements throws; the props are not kept
createInstance_r2(type, props) ==
    IF type \notin inlineElements THEN Threw(InvalidElement(type))
    ELSE Returned(Instance(type, NoProps,
                           ObjectAssign(styleForType_r2(type), props.style),
                           <<>>))

createInstance(type, props) ==
    IF variant = 1 THEN createInstance_r1(type, props)
    ELSE createInstance_r2(type, props)

\* parentInstance.children.push(child)
appendInitialChild(parentInstance, child) ==
    [parentInstance EXCEPT !.children = Append(@, child)]

\* childSet.push(child)
appendChildToContainerChildSet(childSet, child) == Append(childSet, child)

RECURSIVE AppendAll(_, _)
AppendAll(parentInstance, kids) ==
    IF kids = <<>> THEN parentInstance
    ELSE AppendAll(appendInitialChild(parentInstance, Head(kids)), Tail(kids))

RECURSIVE completeWork(_)
RECURSIVE completeChildren(_, _)
\* the engine's render phase over one host element: the children are
\* completed first, then createInstance is called for the element and the
\* children are appended to it; the first error thrown ends the work
completeWork(el) ==
    IF IsText(el) THEN Returned(createTextInstance(el.text))
    ELSE LET kids == completeChildren(el.children, <<>>)
         IN IF kids.err # NoError THEN kids
            ELSE LET made == createInstance(el.type, el.props)
                 IN IF made.err # NoError THEN made
                    ELSE Returned(AppendAll(made.value, kids.value))

completeChildren(els, done) ==
    IF els = <<>> THEN Returned(done)
    ELSE LET first == completeWork(Head(els))
         IN IF first.err # NoError THEN first
            ELSE completeChildren(Tail(els),
                     appendChildToContainerChildSet(done, first.value))

(***************************************************************************)
(* The tree flattener.  The result is the returned string, the subs list   *)
(* as the pushes left it, and the error thrown (NoError when it returns).  *)
(***************************************************************************)
Flat(string, subs, err) == [string |-> string, subs |-> subs, err |-> err]

SymbolToString == TypeError("Cannot convert a Symbol value to a string")

\* subs.push(toCSSString(style)); string += "%c" + child;
PushText(text, string, style, subs) ==
    IF toCSSStringThrows(style) THEN Flat(string, subs, SymbolToString)
    ELSE Flat(string \o S_marker \o text, Append(subs, toCSSString(style)), NoError)

\* Object.assign({}, child.style, style): the inherited value wins
nextStyleInheritedWins(style, child) ==
    ObjectAssign(ObjectAssign(<<>>, child.style), style)

\* Object.assign({}, style, child.style)
nextStyle(style, child) == ObjectAssign(ObjectAssign(<<>>, style), child.style)

\* if (child.type === "a" && child.props.href) string += " " + child.props.href
AppendHref(child, res) ==
    IF res.err = NoError /\ child.type = "a" /\ Truthy(child.props.href)
    THEN IF CanToString(child.props.href)
         THEN Flat(res.string \o S_space \o ToString(child.props.href),
                   res.subs, NoError)
         ELSE Flat(res.string, res.subs, SymbolToString)
    ELSE res

RECURSIVE recursivelyConcatenate_r1(_, _, _, _)
recursivelyConcatenate_r1(children, string, style, subs) ==
    IF children = <<>> THEN Flat(string, subs, NoError)
    ELSE LET child == Head(children)
             one == IF IsText(child) THEN PushText(child.text, string, style, subs)
                    ELSE LET kids == CASE child.type = "br" ->
                                              <<createTextInstance(S_newline)>>
                                       [] child.type = "img" ->
                                              <<createTextInstance(S_space)>>
                                       [] OTHER -> child.children
                         IN AppendHref(child,
                                recursivelyConcatenate_r1(
                                    kids, string, nextStyle(style, child), subs))
         IN IF one.err # NoError THEN one
            ELSE recursivelyConcatenate_r1(Tail(children), one.string, style, one.subs)

RECURSIVE recursivelyConcatenate_r2(_, _, _, _)
recursivelyConcatenate_r2(children, string, style, subs) ==
    IF children = <<>> THEN Flat(string, subs, NoError)
    ELSE LET child == Head(children)
             one == IF IsText(child) THEN PushText(child.text, string, style, subs)
                    ELSE IF child.type = "br"
                         THEN Flat(string \o S_newline, subs, NoError)
                         ELSE recursivelyConcatenate_r2(
                                  child.children, string, nextStyle(style, child), subs)
         IN IF one.err # NoError THEN one
            ELSE recursivelyConcatenate_r2(Tail(children), one.string, style, one.subs)

recursivelyConcatenate(children, string, style, subs) ==
    IF variant = 1 THEN recursivelyConcatenate_r1(children, string, style, subs)
    ELSE recursivelyConcatenate_r2(children, string, style, subs)

(***************************************************************************)
(* Serializer harness: a style mapping drawn from bounded sets, then       *)
(* toCSSString applied to it.                                              *)
(***************************************************************************)
StyleKeys == {K_color, K_fontWeight, K_backgroundColor, K_borderTopLeftRadius,
              K_WebkitFilter}
StyleValues == {Str(<<"r","e","d">>), Str(<<"4","p","x">>), Num(0), Num(12)}

RECURSIVE StyleMaps(_)
\* the mappings of at most n properties with distinct keys
StyleMaps(n) ==
    IF n = 0 THEN {<<>>}
    ELSE LET smaller == StyleMaps(n - 1)
         IN smaller \cup
            {Append(m, Prop(k, v)) :
                m \in {x \in smaller : Len(x) = n - 1},
                k \in StyleKeys, v \in StyleValues}

DistinctKeys(style) ==
    \A i, j \in 1..Len(style) : style[i].k = style[j].k => i = j

NoStyleRun == [phase |-> "off", style |-> <<>>, css |-> <<>>]
NoFlatten == [phase |-> "off", elements |-> <<>>, instances |-> <<>>,
              string |-> <<>>, subs |-> <<>>, err |-> NoError]

InitStyle ==
    /\ variant \in {1, 2}
    /\ \E m \in {x \in StyleMaps(MaxProps) : DistinctKeys(x)} :
           st = [phase |-> "input", style |-> m, css |-> <<>>]
    /\ fl = NoFlatten
    /\ container = <<>> /\ root = <<>> /\ pc = <<>> /\ commits = <<>>
    /\ out = <<>> /\ thrown = <<>> /\ entry = <<>> /\ tree = <<>>

Serialize ==
    /\ st.phase = "input"
    /\ ~toCSSStringThrows(st.style)
    /\ st' = [st EXCEPT !.phase = "done", !.css = toCSSString(st.style)]
    /\ UNCHANGED <<variant, sessionVars, fl>>

StyleNext == Serialize

SpecStyle == InitStyle /\ [][StyleNext]_vars

(***************************************************************************)
(* C10 as the spec states it: each own property, in iteration order, gives *)
(* `property:value;` where the property name has a hyphen before every     *)
(* upper-case letter and is then lower-cased.                              *)
(***************************************************************************)
RECURSIVE HyphenBeforeEveryUpper(_)
HyphenBeforeEveryUpper(s) ==
    IF s = <<>> THEN <<>>
    ELSE (IF IsUpper(Head(s)) THEN <<"-", LowerChar(Head(s))>> ELSE <<Head(s)>>)
         \o HyphenBeforeEveryUpper(Tail(s))

RECURSIVE DeclarationsOf(_)
DeclarationsOf(style) ==
    IF style = <<>> THEN <<>>
    ELSE HyphenBeforeEveryUpper(Head(style).k) \o <<":">>
         \o ToString(Head(style).v) \o <<";">> \o DeclarationsOf(Tail(style))

\* C10: toCSSString(style) is the concatenation, in iteration order, of
\* `property:value;` with the property name hyphenated before every
\* upper-case letter and lower-cased; the empty mapping gives "".
C10_HyphenEveryUpper ==
    st.phase = "done" => st.css = DeclarationsOf(st.style)

(***************************************************************************)
(* Flattening harness: a forest of host elements drawn from bounded sets,  *)
(* then the engine's render phase (Construct) and the flattening of the    *)
(* committed children (Flatten).                                           *)
(***************************************************************************)
WithStyle(style) == [NoProps EXCEPT !.style = style]

ElementLabels ==
    { Element("strong", NoProps, <<>>),
      Element("em", WithStyle(<<Prop(K_color, Str(S_teal)),
                                Prop(K_fontWeight, Num(400))>>), <<>>),
      Element("a", [NoProps EXCEPT !.href = Str(S_google)], <<>>),
      Element("br", NoProps, <<>>),
      Element("img", [NoProps EXCEPT !.width = Num(8), !.height = Str(<<"2","e","m">>),
                                     !.src = Str(<<"k">>)], <<>>) }

TextLabels == {Text(S_Chris), Text(S_marker)}

RECURSIVE TreesOfSize(_)
RECURSIVE ForestsOfSize(_)
\* the trees of exactly k nodes
TreesOfSize(k) ==
    IF k = 1 THEN TextLabels \cup ElementLabels
    ELSE {[e EXCEPT !.children = f] : e \in ElementLabels, f \in ForestsOfSize(k - 1)}

\* the sequences of trees of exactly k nodes in all
ForestsOfSize(k) ==
    IF k = 0 THEN {<<>>}
    ELSE UNION {{<<t>> \o f : t \in TreesOfSize(j), f \in ForestsOfSize(k - j)} :
                   j \in 1..k}

Forests(n) == UNION {ForestsOfSize(k) : k \in 0..n}

InitFlatten ==
    /\ variant \in {1, 2}
    /\ \E f \in Forests(MaxNodes) :
           fl = [phase |-> "elements", elements |-> f, instances |-> <<>>,
                 string |-> <<>>, subs |-> <<>>, err |-> NoError]
    /\ st = NoStyleRun
    /\ container = <<>> /\ root = <<>> /\ pc = <<>> /\ commits = <<>>
    /\ out = <<>> /\ thrown = <<>> /\ entry = <<>> /\ tree = <<>>

\* the engine builds the instances of the forest, calling createInstance,
\* createTextInstance, appendInitialChild and appendChildToContainerChildSet
Construct ==
    /\ fl.phase = "elements"
    /\ LET built == completeChildren(fl.elements, <<>>)
       IN fl' = IF built.err # NoError
                THEN [fl EXCEPT !.phase = "rejected", !.err = built.err]
                ELSE [fl EXCEPT !.phase = "instances", !.instances = built.value]
    /\ UNCHANGED <<variant, sessionVars, st>>

\* recursivelyConcatenate(newChildren, "", {}, subs) with subs = []
Flatten ==
    /\ fl.phase = "instances"
    /\ LET res == recursivelyConcatenate(fl.instances, <<>>, <<>>, <<>>)
       IN fl' = IF res.err # NoError
                THEN [fl EXCEPT !.phase = "threw", !.err = res.err]
                ELSE [fl EXCEPT !.phase = "flattened", !.string = res.string,
                                !.subs = res.subs]
    /\ UNCHANGED <<variant, sessionVars, st>>

FlattenNext == Construct \/ Flatten

SpecFlatten == InitFlatten /\ [][FlattenNext]_vars

(***************************************************************************)
(* What the claims say of a forest, stated without the flattener.          *)
(***************************************************************************)
\* the number of %c markers in a format string
CountMarkers(s) ==
    Cardinality({i \in 1..(Len(s) - 1) : s[i] = "%" /\ s[i + 1] = "c"})

RECURSIVE Concat(_)
Concat(seqs) == IF seqs = <<>> THEN <<>> ELSE Head(seqs) \o Concat(Tail(seqs))

RECURSIVE NearestFrom(_, _)
NearestFrom(all, i) ==
    IF i > Len(all) THEN <<>>
    ELSE (IF \E j \in 1..(i - 1) : all[j].k = all[i].k THEN <<>>
          ELSE LET last == CHOOSE j \in i..Len(all) :
                               /\ all[j].k = all[i].k
                               /\ \A h \in (j + 1)..Len(all) : all[h].k # all[i].k
               IN <<Prop(all[i].k, all[last].v)>>)
         \o NearestFrom(all, i + 1)

\* the merge of the styles of a chain of ancestors, root first: every
\* property some ancestor sets, with the value of the nearest one that sets it
NearestWins(chain) == NearestFrom(Concat(chain), 1)

RECURSIVE PathsIn(_)
\* the paths (child indexes from the container down) of every node
PathsIn(forest) ==
    UNION {{<<i>>} \cup {<<i>> \o q : q \in PathsIn(forest[i].children)} :
              i \in 1..Len(forest)}

RECURSIVE NodeAt(_, _)
NodeAt(forest, path) ==
    IF Len(path) = 1 THEN forest[path[1]]
    ELSE NodeAt(forest[path[1]].children, Tail(path))

RECURSIVE AncestorsAt(_, _)
\* the proper ancestors of the node at path, root first
AncestorsAt(forest, path) ==
    IF Len(path) = 1 THEN <<>>
    ELSE <<forest[path[1]]>> \o AncestorsAt(forest[path[1]].children, Tail(path))

ChainAt(forest, path) ==
    LET anc == AncestorsAt(forest, path) IN [i \in 1..Len(anc) |-> anc[i].style]

RECURSIVE Before(_, _)
\* the forest cut off just before the node at path: what a depth-first
\* left-to-right walk has visited when it reaches that node
Before(forest, path) ==
    IF Len(path) = 1 THEN SubSeq(forest, 1, path[1] - 1)
    ELSE SubSeq(forest, 1, path[1] - 1)
         \o <<[forest[path[1]] EXCEPT !.children = Before(@, Tail(path))]>>

\* the text leaves the walk reaches: those with no br or img above them
TextPaths(forest) ==
    {p \in PathsIn(forest) :
        /\ IsText(NodeAt(forest, p))
        /\ LET anc == AncestorsAt(forest, p)
           IN \A i \in 1..Len(anc) : anc[i].type \notin {"br", "img"}}

RECURSIVE ClaimedRuns(_, _)
\* the styled runs claim C1 counts, in depth-first left-to-right order, each
\* with the styles of its ancestor chain: one per text leaf, one per image,
\* none for a line-break
ClaimedRuns(forest, chain) ==
    IF forest = <<>> THEN <<>>
    ELSE LET n == Head(forest)
         IN (CASE IsText(n) -> <<chain>>
               [] n.type = "br" -> <<>>
               [] n.type = "img" -> <<Append(chain, n.style)>>
               [] OTHER -> ClaimedRuns(n.children, Append(chain, n.style)))
            \o ClaimedRuns(Tail(forest), chain)

\* C1: the format string has as many %c markers as the style list has
\* entries, that number is the count of text leaves plus one per image, and
\* the k-th entry is the serialized style of the k-th run's ancestor chain.
C1_MarkersMatchStyleList ==
    fl.phase = "flattened" =>
        LET runs == ClaimedRuns(fl.instances, <<>>)
        IN /\ CountMarkers(fl.string) = Len(fl.subs)
           /\ Len(fl.subs) = Len(runs)
           /\ \A k \in 1..Len(runs) :
                  k <= Len(fl.subs) => fl.subs[k] = toCSSString(NearestWins(runs[k]))

\* C6: every br node, whatever its children and whatever style is inherited,
\* adds exactly one newline to the format string and nothing to the style
\* list.
C6_BrIsOneNewline ==
    fl.phase \in {"flattened", "threw"} =>
        \A p \in PathsIn(fl.instances) :
            NodeAt(fl.instances, p).type = "br" =>
                recursivelyConcatenate(<<NodeAt(fl.instances, p)>>, <<>>,
                                       NearestWins(ChainAt(fl.instances, p)), <<>>)
                    = Flat(S_newline, <<>>, NoError)

\* C7: every anchor whose element carries an href gets " " + href appended
\* right after its children's output, with no marker and no style entry for
\* it; an anchor without href appends nothing.
C7_AnchorAppendsHref ==
    fl.phase \in {"flattened", "threw"} =>
        \A p \in PathsIn(fl.instances) :
            LET el == NodeAt(fl.elements, p)
                inst == NodeAt(fl.instances, p)
                inherited == NearestWins(ChainAt(fl.instances, p))
                inner == recursivelyConcatenate(
                             inst.children, <<>>,
                             NearestWins(Append(ChainAt(fl.instances, p), inst.style)),
                             <<>>)
                whole == recursivelyConcatenate(<<inst>>, <<>>, inherited, <<>>)
            IN (el.type = "a" /\ inner.err = NoError) =>
                   whole = IF el.props.href.t = "undefined" THEN inner
                           ELSE Flat(inner.string \o S_space \o ToString(el.props.href),
                                     inner.subs, NoError)

\* C8: the style entry pushed for a text leaf is the serialization of the
\* merge of its ancestors' resolved styles from the root down, the nearer
\* ancestor winning on a property both set; a text leaf directly in the
\* container gets the empty style.
C8_TextStyleIsNearestWins ==
    fl.phase = "flattened" =>
        \A p \in TextPaths(fl.instances) :
            LET k == Len(recursivelyConcatenate(Before(fl.instances, p),
                                                <<>>, <<>>, <<>>).subs) + 1
            IN /\ k <= Len(fl.subs)
               /\ fl.subs[k] = toCSSString(NearestWins(ChainAt(fl.instances, p)))

\* a text leaf under two ancestors that both set font-weight has been flattened
C8_Witness ==
    /\ fl.phase = "flattened"
    /\ \E p \in TextPaths(fl.instances) :
           /\ Len(p) = 3
           /\ LET chain == ChainAt(fl.instances, p)
              IN /\ HasKey(chain[1], K_fontWeight) /\ HasKey(chain[2], K_fontWeight)
                 /\ ValueOf(chain[1], K_fontWeight) # ValueOf(chain[2], K_fontWeight)

(***************************************************************************)
(* The render driver: the host config's commit callbacks, render and the   *)
(* interception wrappers.                                                  *)
(***************************************************************************)
methods == {"debug", "error", "info", "log", "warn", "group", "groupCollapsed",
            "trace"}

\* the module's `context`: the console the wrappers fall back to
context == "console"

ElementVal(nodes) == [t |-> "element", nodes |-> nodes, throws |-> FALSE]
\* an element whose component throws while it renders
Broken == [t |-> "element", nodes |-> <<>>, throws |-> TRUE]
\* a plain object whose `type` property holds an element
ObjectVal == [t |-> "object"]
ErrorVal(e) == [t |-> "error", e |-> e]

\* react-is: isElement(object)
isElement(v) == v.t = "element"

\* the container info render hands to createContainer
ContainerInfo(ctx, method) == [context |-> ctx, method |-> method, committed |-> FALSE]
NoContainer == [context |-> "none", method |-> "none", committed |-> FALSE]

\* context[method].apply(context, args), as a record of the call
Call(ctx, method, args) == [context |-> ctx, method |-> method, args |-> args]

Strs(seqs) == [i \in 1..Len(seqs) |-> Str(seqs[i])]

Handled(calls, err) == [calls |-> calls, err |-> err]

\* replaceContainerChildren calling the module's context, not the container's
replaceContainerChildrenModuleContext(cont, newChildren) ==
    IF cont.committed THEN Handled(<<>>, NoError)
    ELSE LET res == recursivelyConcatenate(newChildren, <<>>, <<>>, <<>>)
         IN IF res.err # NoError THEN Handled(<<>>, res.err)
            ELSE Handled(<<Call(context, cont.method,
                                <<Str(res.string)>> \o Strs(res.subs))>>, NoError)

\* replaceContainerChildren(container, newChildren): the calls it makes on
\* the context and the error it throws
replaceContainerChildren(cont, newChildren) ==
    IF cont.committed THEN Handled(<<>>, NoError)
    ELSE LET res == recursivelyConcatenate(newChildren, <<>>, <<>>, <<>>)
         IN IF res.err # NoError THEN Handled(<<>>, res.err)
            ELSE Handled(<<Call(cont.context, cont.method,
                                <<Str(res.string)>> \o Strs(res.subs))>>, NoError)

\* containerInfo.committed = true
resetAfterCommit(containerInfo) == [containerInfo EXCEPT !.committed = TRUE]

AlreadyCommitted ==
    [name |-> "Error", message |-> <<"Console has already committed this root.">>]

\* prepareForCommit: the error it throws
prepareForCommit_r1(containerInfo) == NoError
prepareForCommit_r2(containerInfo) ==
    IF containerInfo.committed THEN AlreadyCommitted ELSE NoError
prepareForCommit(containerInfo) ==
    IF variant = 1 THEN prepareForCommit_r1(containerInfo)
    ELSE prepareForCommit_r2(containerInfo)

\* what an error thrown inside reconciler.updateContainer leads to in render:
\* revision 1 has no try/catch, revision 2 calls context.error(e)
renderCatches_r1 == FALSE
renderCatches_r2 == TRUE
renderCatches == IF variant = 1 THEN renderCatches_r1 ELSE renderCatches_r2

\* the wrapper's choice between render, the fallback and a TypeError
\* revision 1: arguments.length === 1 && isElement(root)
overrides_r1(args) ==
    IF Len(args) = 1 /\ isElement(args[1]) THEN "render" ELSE "fallback"

\* revision 2: arguments.length === 1 || isElement(root.type); root.type
\* throws when there is no first argument, is the tag or component of an
\* element, and is whatever the `type` property of any other value holds
overrides_r2(args) ==
    IF Len(args) = 1 THEN "render"
    ELSE IF Len(args) = 0 THEN "throw"
    ELSE IF args[1].t = "object" THEN "render"
    ELSE "fallback"

overrides(args) == IF variant = 1 THEN overrides_r1(args) ELSE overrides_r2(args)

UndefinedType == TypeError("Cannot read properties of undefined (reading 'type')")
ComponentError == [name |-> "Error", message |-> <<"thrown by a component">>]
InvalidChild == [name |-> "Error", message |-> <<"Objects are not valid as a React child">>]

\* the host nodes the engine renders a root value to
RootNodes(v) ==
    CASE v.t = "element" -> v.nodes
      [] v.t = "string" -> <<Text(v.s)>>
      [] OTHER -> <<>>

(***************************************************************************)
(* Render sessions.  Each session is one invocation of a wrapper or of     *)
(* render; the engine's callbacks of different sessions interleave.        *)
(***************************************************************************)
Sessions == {1, 2}

Chris == <<Element("strong", NoProps,
             <<Element("em", WithStyle(<<Prop(K_color, Str(S_teal))>>),
                 <<Text(S_Chris)>>)>>)>>
Google == <<Element("a", [NoProps EXCEPT !.href = Str(S_google)], <<Text(S_Google)>>)>>
Block == <<Element("div", NoProps, <<Text(S_Chris), Element("br", NoProps, <<>>)>>)>>
Symbolic == <<Element("span", WithStyle(<<Prop(K_color, Sym)>>), <<Text(S_Chris)>>)>>

SampleRoots == {ElementVal(Chris), ElementVal(Google), ElementVal(Block),
                ElementVal(Symbolic), Broken}

Hi == Str(<<"h","i">>)

ArgLists ==
    {<<>>, <<Hi>>, <<ElementVal(Chris), Hi>>, <<ObjectVal, Hi>>}
    \cup {<<r>> : r \in SampleRoots}

\* the wrappers the model calls, and the methods render is called with
CalledNames == {"log", "warn", "error"}
RenderMethods == {"log", "error"}
Contexts == {"console", "other"}

NotThrown == [error |-> NoError, at |-> "none"]
NoEntry == [kind |-> "none", name |-> "none", args |-> <<>>]

Init ==
    /\ variant \in {1, 2}
    /\ container = [s \in Sessions |-> NoContainer]
    /\ root = [s \in Sessions |-> Undefined]
    /\ pc = [s \in Sessions |-> "new"]
    /\ commits = [s \in Sessions |-> 0]
    /\ out = <<>>
    /\ thrown = [s \in Sessions |-> NotThrown]
    /\ entry = [s \in Sessions |-> NoEntry]
    /\ tree = [s \in Sessions |-> <<>>]
    /\ fl = NoFlatten
    /\ st = NoStyleRun

By(calls, s, via) == [i \in 1..Len(calls) |-> [call |-> calls[i], by |-> s, via |-> via]]

\* an error leaves reconciler.updateContainer inside render
Fails(s, e) ==
    /\ pc' = [pc EXCEPT ![s] = "failed"]
    /\ IF renderCatches
       THEN /\ out' = out \o By(<<Call(container[s].context, "error", <<ErrorVal(e)>>)>>,
                                s, "catch")
            /\ thrown' = [thrown EXCEPT ![s] = [error |-> e, at |-> "caught"]]
       ELSE /\ out' = out
            /\ thrown' = [thrown EXCEPT ![s] = [error |-> e, at |-> "render"]]

\* render(root, context, method) up to the call of updateContainer
StartRender(s, rootv, ctx, method) ==
    /\ container' = [container EXCEPT ![s] = ContainerInfo(ctx, method)]
    /\ root' = [root EXCEPT ![s] = rootv]
    /\ pc' = [pc EXCEPT ![s] = "work"]

\* overrides[name](...args)
Override(s) ==
    /\ pc[s] = "new"
    /\ \E name \in CalledNames \cap methods, args \in ArgLists :
           /\ entry' = [entry EXCEPT ![s] = [kind |-> "override", name |-> name,
                                             args |-> args]]
           /\ CASE overrides(args) = "render" ->
                       /\ StartRender(s, args[1], context, name)
                       /\ UNCHANGED <<out, thrown>>
                [] overrides(args) = "fallback" ->
                       /\ out' = out \o By(<<Call(context, name, args)>>, s, "fallback")
                       /\ pc' = [pc EXCEPT ![s] = "fellthrough"]
                       /\ UNCHANGED <<container, root, thrown>>
                [] OTHER ->
                       /\ thrown' = [thrown EXCEPT ![s] =
                                        [error |-> UndefinedType, at |-> "wrapper"]]
                       /\ pc' = [pc EXCEPT ![s] = "failed"]
                       /\ UNCHANGED <<container, root, out>>
    /\ UNCHANGED <<variant, commits, tree, fl, st>>

\* render(root, context, method) called directly
Render(s) ==
    /\ pc[s] = "new"
    /\ \E rootv \in SampleRoots, method \in RenderMethods :
           /\ entry' = [entry EXCEPT ![s] = [kind |-> "render", name |-> method,
                                             args |-> <<rootv>>]]
           /\ StartRender(s, rootv, "other", method)
    /\ UNCHANGED <<variant, commits, out, thrown, tree, fl, st>>

\* the engine's render phase: the instances are built
PerformWork(s) ==
    /\ pc[s] = "work"
    /\ LET built == CASE root[s].t = "object" -> Threw(InvalidChild)
                      [] root[s].t = "element" /\ root[s].throws ->
                             Threw(ComponentError)
                      [] OTHER -> completeChildren(RootNodes(root[s]), <<>>)
       IN IF built.err # NoError
          THEN Fails(s, built.err) /\ tree' = tree
          ELSE /\ tree' = [tree EXCEPT ![s] = built.value]
               /\ pc' = [pc EXCEPT ![s] = "prepare"]
               /\ UNCHANGED <<out, thrown>>
    /\ UNCHANGED <<variant, container, root, commits, entry, fl, st>>

\* the engine starts a commit: the first one inside render, a later one when
\* a component updates itself
PrepareForCommit(s) ==
    /\ \/ pc[s] = "prepare"
       \/ pc[s] = "mounted" /\ commits[s] < MaxCommits
    /\ commits' = [commits EXCEPT ![s] = @ + 1]
    /\ LET e == prepareForCommit(container[s])
       IN IF e # NoError
          THEN /\ thrown' = [thrown EXCEPT ![s] = [error |-> e, at |-> "engine"]]
               /\ pc' = [pc EXCEPT ![s] = "failed"]
          ELSE /\ pc' = [pc EXCEPT ![s] = "replace"]
               /\ thrown' = thrown
    /\ UNCHANGED <<variant, container, root, out, entry, tree, fl, st>>

ReplaceContainerChildren(s) ==
    /\ pc[s] = "replace"
    /\ LET r == replaceContainerChildren(container[s], tree[s])
       IN IF r.err # NoError
          THEN Fails(s, r.err)
          ELSE /\ out' = out \o By(r.calls, s, "deliver")
               /\ pc' = [pc EXCEPT ![s] = "reset"]
               /\ thrown' = thrown
    /\ UNCHANGED <<variant, container, root, commits, entry, tree, fl, st>>

ResetAfterCommit(s) ==
    /\ pc[s] = "reset"
    /\ container' = [container EXCEPT ![s] = resetAfterCommit(container[s])]
    /\ pc' = [pc EXCEPT ![s] = "mounted"]
    /\ UNCHANGED <<variant, root, commits, out, thrown, entry, tree, fl, st>>

Next ==
    \E s \in Sessions :
        \/ Override(s)
        \/ Render(s)
        \/ PerformWork(s)
        \/ PrepareForCommit(s)
        \/ ReplaceContainerChildren(s)
        \/ ResetAfterCommit(s)

Spec == Init /\ [][Next]_vars

(***************************************************************************)
(* The commit callbacks in any order: one session whose container exists   *)
(* and whose instances are built, and an engine that issues                *)
(* prepareForCommit, replaceContainerChildren and resetAfterCommit in any  *)
(* order, MaxCallbacks times in all.                                       *)
(***************************************************************************)
InitFree ==
    /\ variant \in {1, 2}
    /\ \E rootv \in SampleRoots, method \in RenderMethods :
           LET built == completeChildren(RootNodes(rootv), <<>>)
           IN /\ ~rootv.throws
              /\ built.err = NoError
              /\ container = [s \in Sessions |->
                                 IF s = 1 THEN ContainerInfo("other", method)
                                 ELSE NoContainer]
              /\ root = [s \in Sessions |-> IF s = 1 THEN rootv ELSE Undefined]
              /\ tree = [s \in Sessions |-> IF s = 1 THEN built.value ELSE <<>>]
              /\ entry = [s \in Sessions |->
                             IF s = 1 THEN [kind |-> "render", name |-> method,
                                            args |-> <<rootv>>]
                             ELSE NoEntry]
    /\ pc = [s \in Sessions |-> IF s = 1 THEN "free" ELSE "new"]
    /\ commits = [s \in Sessions |-> 0]
    /\ out = <<>>
    /\ thrown = [s \in Sessions |-> NotThrown]
    /\ fl = NoFlatten
    /\ st = NoStyleRun

FreeCallback(s) ==
    /\ pc[s] = "free"
    /\ commits[s] < MaxCallbacks
    /\ commits' = [commits EXCEPT ![s] = @ + 1]

FreePrepareForCommit(s) ==
    /\ FreeCallback(s)
    /\ LET e == prepareForCommit(container[s])
       IN thrown' = IF e # NoError
                    THEN [thrown EXCEPT ![s] = [error |-> e, at |-> "engine"]]
                    ELSE thrown
    /\ UNCHANGED <<variant, container, root, pc, out, entry, tree, fl, st>>

FreeReplaceContainerChildren(s) ==
    /\ FreeCallback(s)
    /\ LET r == replaceContainerChildren(container[s], tree[s])
       IN /\ out' = out \o By(r.calls, s, "deliver")
          /\ thrown' = IF r.err # NoError
                       THEN [thrown EXCEPT ![s] = [error |-> r.err, at |-> "engine"]]
                       ELSE thrown
    /\ UNCHANGED <<variant, container, root, pc, entry, tree, fl, st>>

FreeResetAfterCommit(s) ==
    /\ FreeCallback(s)
    /\ container' = [container EXCEPT ![s] = resetAfterCommit(container[s])]
    /\ UNCHANGED <<variant, root, pc, out, thrown, entry, tree, fl, st>>

FreeNext ==
    \/ FreePrepareForCommit(1)
    \/ FreeReplaceContainerChildren(1)
    \/ FreeResetAfterCommit(1)

SpecFree == InitFree /\ [][FreeNext]_vars

(***************************************************************************)
(* Claims about the sessions.                                              *)
(***************************************************************************)
CallsBy(s, via) == SelectSeq(out, LAMBDA c : c.by = s /\ c.via = via)

\* C2: over any sequence of prepareForCommit, replaceContainerChildren and
\* resetAfterCommit on one container, context[method] is invoked at most
\* once: a readiness signal after the first delivery produces no output.
C2_DeliversAtMostOnce ==
    \A s \in Sessions : Len(CallsBy(s, "deliver")) <= 1

\* C3: render never throws to its caller: an error raised while the
\* instances are built or the children are flattened ends in exactly one
\* call of context.error with that error.
C3_RenderNeverThrows ==
    \A s \in Sessions :
        (pc[s] = "failed" /\ thrown[s].at \in {"render", "caught"}) =>
            /\ thrown[s].at = "caught"
            /\ CallsBy(s, "catch") =
                   By(<<Call(container[s].context, "error",
                             <<ErrorVal(thrown[s].error)>>)>>, s, "catch")

RECURSIVE PostOrderTypes(_)
\* the tags of a forest in the order the engine calls createInstance
PostOrderTypes(forest) ==
    IF forest = <<>> THEN <<>>
    ELSE (IF IsText(Head(forest)) THEN <<>>
          ELSE PostOrderTypes(Head(forest).children) \o <<Head(forest).type>>)
         \o PostOrderTypes(Tail(forest))

InvalidTags(forest) ==
    SelectSeq(PostOrderTypes(forest), LAMBDA t : t \notin inlineElements)

\* the engine's render phase has run for session s on a root it can render
Worked(s) ==
    /\ container[s] # NoContainer
    /\ pc[s] # "work"
    /\ root[s].t \in {"element", "string"}
    /\ root[s].t = "element" => ~root[s].throws

\* C4: createInstance fails with "Invalid element: <type> is not an inline
\* element." for every tag outside the permitted set, no instance is made
\* and that render makes no output call; inside the set it never fails.
C4_InvalidTagRejected ==
    \A s \in Sessions :
        Worked(s) =>
            LET bad == InvalidTags(RootNodes(root[s]))
            IN IF bad # <<>>
               THEN /\ pc[s] = "failed"
                    /\ thrown[s].error = InvalidElement(Head(bad))
                    /\ tree[s] = <<>>
                    /\ CallsBy(s, "deliver") = <<>>
               ELSE /\ Len(tree[s]) = Len(RootNodes(root[s]))
                    /\ \A t \in inlineElements : thrown[s].error # InvalidElement(t)

\* C5: a wrapper redirects to render(root, context, name) if and only if it
\* is called with exactly one argument and that argument is an element; in
\* every other case the original method is called exactly once with the
\* arguments unchanged and render is not called.
C5_RedirectIffSingleElement ==
    \A s \in Sessions :
        entry[s].kind = "override" =>
            LET args == entry[s].args
                single == Len(args) = 1 /\ isElement(args[1])
            IN IF single
               THEN /\ container[s] # NoContainer
                    /\ container[s].context = context
                    /\ container[s].method = entry[s].name
                    /\ root[s] = args[1]
                    /\ CallsBy(s, "fallback") = <<>>
               ELSE /\ container[s] = NoContainer
                    /\ CallsBy(s, "fallback") =
                           By(<<Call(context, entry[s].name, args)>>, s, "fallback")

\* the call a session is to make: the flattening of its own root, to the
\* context and method it was entered with
OwnCall(s) ==
    LET built == completeChildren(RootNodes(root[s]), <<>>)
        res == recursivelyConcatenate(built.value, <<>>, <<>>, <<>>)
    IN Call(IF entry[s].kind = "override" THEN context ELSE "other",
            entry[s].name, <<Str(res.string)>> \o Strs(res.subs))

\* the first commit of session s has passed replaceContainerChildren
Delivered(s) == pc[s] \in {"reset", "mounted"} \/ commits[s] >= 2

\* the first commit of session s has passed resetAfterCommit
WasReset(s) == pc[s] = "mounted" \/ commits[s] >= 2

\* C9: with the callbacks of two sessions interleaved in any order, each
\* session whose construction and flattening raise no error makes exactly
\* one output call, carrying the format string and style arguments of its
\* own tree to its own context and method, and its committed flag follows
\* its own resetAfterCommit only.
C9_SessionsDoNotInterfere ==
    \A s \in Sessions :
        /\ Len(CallsBy(s, "deliver")) <= 1
        /\ Delivered(s) => CallsBy(s, "deliver") = By(<<OwnCall(s)>>, s, "deliver")
        /\ ~Delivered(s) => CallsBy(s, "deliver") = <<>>
        /\ container[s].committed <=> WasReset(s)

\* both sessions are between replaceContainerChildren and resetAfterCommit
\* at once, with different roots, contexts and methods
C9_Witness ==
    /\ pc[1] = "reset" /\ pc[2] = "reset"
    /\ root[1] # root[2]
    /\ container[1].context # container[2].context
    /\ container[1].method # container[2].method
    /\ Len(out) = 2

(***************************************************************************)
(* Tag policy against style resolver: one host element per tag name, with  *)
(* one text child, taken through the render phase (Construct) and the      *)
(* flattening (Flatten).  The tag names are the permitted inline tags,     *)
(* the tags styleForType has a case for in either revision, and "div".     *)
(***************************************************************************)
StyledTags ==
    {"a", "abbr", "b", "strong", "del", "s", "em", "i", "img", "ins", "u",
     "mark", "small", "sub", "sup"}

TagNames == inlineElements \cup StyledTags \cup {"div"}

\* the props an element of the tag is written with: an anchor has its href,
\* an image its width, height and src
TagProps(type) ==
    CASE type = "a" -> [NoProps EXCEPT !.href = Str(S_google)]
      [] type = "img" -> [NoProps EXCEPT !.width = Num(8),
                                         !.height = Str(<<"2", "e", "m">>),
                                         !.src = Str(<<"k">>)]
      [] OTHER -> NoProps

AuthorStyles == {<<>>, <<Prop(K_color, Str(S_teal))>>}

TagElements ==
    {Element(type, [TagProps(type) EXCEPT !.style = style], <<Text(S_Chris)>>) :
        type \in TagNames, style \in AuthorStyles}

InitTags ==
    /\ variant \in {1, 2}
    /\ \E el \in TagElements :
           fl = [phase |-> "elements", elements |-> <<el>>, instances |-> <<>>,
                 string |-> <<>>, subs |-> <<>>, err |-> NoError]
    /\ st = NoStyleRun
    /\ container = <<>> /\ root = <<>> /\ pc = <<>> /\ commits = <<>>
    /\ out = <<>> /\ thrown = <<>> /\ entry = <<>> /\ tree = <<>>

SpecTags == InitTags /\ [][FlattenNext]_vars

\* the element is a host element whose tag has a non-empty default style in
\* the running revision
HasDefaultStyle(el) ==
    ~IsText(el) /\ styleForType(el.type, el.props) # <<>>

\* C11: a tag for which styleForType returns a non-empty default style is
\* accepted by createInstance: the render phase never ends with "Invalid
\* element: <tag> is not an inline element." for such a tag, and once the
\* element is flattened its first style entry is the CSS string of the
\* default style merged with the element's own style.
C11_StyledTagsArePermitted ==
    \A i \in 1..Len(fl.elements) :
        LET el == fl.elements[i]
        IN HasDefaultStyle(el) =>
               /\ fl.err # InvalidElement(el.type)
               /\ (fl.phase = "flattened" /\ Len(fl.elements) = 1) =>
                      /\ fl.subs # <<>>
                      /\ fl.subs[1] =
                             toCSSString(ObjectAssign(
                                 styleForType(el.type, el.props), el.props.style))

====
